---- MODULE Spec2Model ----
(***************************************************************************)
(* Joplin server: the item routes (api/items and the web items routes),    *)
(* the model factory, and the models the routes call (ItemModel,           *)
(* ChangeModel).  Each request is a process that moves from one await of   *)
(* its handler to the next; the database (items, changes, shares) and the  *)
(* upload directory (tmpFiles) are shared by all requests.                 *)
(***************************************************************************)
EXTENDS Integers, Sequences, FiniteSets, TLC

\* ------------------------------------------------------------------ bounds

\* Sequence numbers the Change Log hands out in one run.
MaxChanges == 3
\* Page-size limit the pagination engine enforces.
PageLimit == 2
\* Model instances the factory makes in one run.
MaxInstances == 4
\* Transactions one model call nests.
MaxDepth == 2
\* Runs of each of the menu bar's effects in one run.
MaxRuns == 3
\* Menu items or menus the plugins add at one place.
MaxPluginItems == 1

\* ------------------------------------------------------------- value sets

Procs == {"p1", "p2"}
Users == {"u1", "u2"}
\* Two names that differ only in case: resolution is case-sensitive.
Names == {"note.md", "Note.md"}
RootPaths == {"root", "root:/:"}
PathOf == [n \in Names |-> IF n = "note.md" THEN "root:/note.md:" ELSE "root:/Note.md:"]
PathsOf(names) == {PathOf[n] : n \in names}
\* What an upload carries: no file part, or a file with these bytes.
NoFile == "nofile"
Bytes == {"hello", "hello v2"}
EmptyBuffer == ""
ShareIds == {"s1"}
NoShare == "none"
Envs == {"dev", "prod"}

NoError == "none"
NoItem == [id |-> 0, name |-> "", owner_id |-> "", content |-> "",
           created_time |-> 0, updated_time |-> 0, jop_share_id |-> NoShare]

VARIABLES
    scope,      \* the requests this run sends: who, on what, with what
    env,        \* ctx.env
    items,      \* the items table
    changes,    \* the changes table, in id order
    changeSeq,  \* the last sequence number the changes table handed out
    itemSeq,    \* the last item id generated
    clock,      \* Date.now()
    shares,     \* the shares table
    shareUsers, \* the share_users table: <<share id, user id>>
    req,        \* per request: where its handler is, its inputs and locals
    tmpFiles,   \* upload files on disk: [proc, kind]
    sync,       \* a client's incremental sync pass over the delta route
    listing,    \* a client's pass over the pages of a children listing
    txs,        \* the model instances made by the factory, each with its
                \* transaction stack, and the call chains that use them
    uploaded,   \* history: per user and path, the bytes last uploaded there
                \* and not deleted since
    uncompacted, \* history: every Change ever committed, in commit order
    menuBar     \* the desktop MenuBar component: the runs of its two
                \* debounced effects, their timers, and the menu it has set

vars == <<scope, env, items, changes, changeSeq, itemSeq, clock, shares, shareUsers,
          req, tmpFiles, sync, listing, txs, uploaded, uncompacted, menuBar>>

dbVars == <<items, changes, changeSeq, itemSeq, clock, shares, shareUsers>>

\* ------------------------------------------------- models (ItemModel etc.)

AclActions == {"Create", "Read", "Update", "Delete"}
ChangeTypes == {"create", "update", "delete"}

\* ItemModel.pathToName: the item name a path id stands for; the root path
\* stands for the empty name.
pathToName(pathId) ==
    IF pathId \in RootPaths THEN ""
    ELSE CHOOSE n \in Names : PathOf[n] = pathId

\* --------------------------------------------------------- access control

IsShareRoot(item) == \E s \in shares : s.item_id = item.id

\* The share a target belongs to: the share it is the root of, else the one
\* its jop_share_id names.
TargetShareId(target) ==
    IF \E s \in shares : s.item_id = target.id /\ target.id # 0
    THEN (CHOOSE s \in shares : s.item_id = target.id).id
    ELSE target.jop_share_id

\* The actor owns the share or is one of its share users.
HasShareRelationship(actor, shareId) ==
    \E s \in shares :
        /\ s.id = shareId
        /\ (s.owner_id = actor \/ <<shareId, actor>> \in shareUsers)

\* The items a user's calls are scoped to: the items the user owns and the
\* items of a folder shared with the user (the root of a share the user has
\* a relationship with, and the items scoped to that share).
Visible(userId, i) ==
    \/ i.owner_id = userId
    \/ \E s \in shares :
        /\ s.item_id = i.id \/ s.id = i.jop_share_id
        /\ HasShareRelationship(userId, s.id)

\* The Access Control Evaluator's decision: (1) the owner may do anything;
\* (2) a share relationship allows everything but deleting the share root;
\* (3) everything else is denied.
Allowed(actor, action, target) ==
    IF target.owner_id = actor THEN TRUE
    ELSE IF HasShareRelationship(actor, TargetShareId(target))
         THEN ~(action = "Delete" /\ IsShareRoot(target))
         ELSE FALSE

\* ItemModel.checkIfAllowed: the error it throws, or none.
checkIfAllowed(actor, action, target) ==
    IF Allowed(actor, action, target) THEN NoError ELSE "Forbidden"

\* ------------------------------------------------------------- resolution

\* The rows loadByName's query selects: scoped to the user, name compared
\* exactly.
RowsByName(tbl, userId, name) ==
    {i \in tbl : Visible(userId, i) /\ i.name = name}

\* The first of a set of rows, in id order.
FirstRow(rows) == CHOOSE i \in rows : \A j \in rows : i.id <= j.id

\* ItemModel.loadByName: the user's item of that name, or null; an item the
\* user owns comes before one shared with the user.
loadByName(tbl, userId, name) ==
    LET rows == RowsByName(tbl, userId, name)
        own == {i \in rows : i.owner_id = userId}
    IN  IF rows = {} THEN NoItem
        ELSE IF own # {} THEN FirstRow(own)
        ELSE FirstRow(rows)

\* ItemModel.load by id.
loadById(tbl, id) ==
    IF \E i \in tbl : i.id = id THEN CHOOSE i \in tbl : i.id = id ELSE NoItem

\* ItemModel.serializedContent: the raw payload of the item with that id.
serializedContent(tbl, id) == loadById(tbl, id).content

\* ItemModel.toApiOutput: the item's metadata, without its content.
toApiOutput(item) == [item EXCEPT !.content = ""]

\* ------------------------------------------------------------- change log

NewChange(seq, item, type, time) ==
    [id |-> seq, item_id |-> item.id, item_name |-> item.name, type |-> type,
     owner_id |-> item.owner_id, updated_time |-> time]

\* The changes of a user after a cursor (a change id; 0 is the empty cursor),
\* oldest first.
ChangesAfter(chs, userId, cursor) ==
    SelectSeq(chs, LAMBDA c : c.owner_id = userId /\ c.id > cursor)

Take(s, n) == IF Len(s) <= n THEN s ELSE SubSeq(s, 1, n)

\* ChangeModel.delta: one page of the user's changes after the cursor.
delta(chs, userId, pagination) ==
    LET rest == ChangesAfter(chs, userId, pagination.cursor)
        page == Take(rest, pagination.limit)
    IN  [items |-> page,
         cursor |-> IF page = <<>> THEN pagination.cursor ELSE page[Len(page)].id,
         has_more |-> Len(rest) > Len(page)]

\* requestDeltaPagination: the pagination a delta request's query asks for;
\* the limit is capped by the engine's maximum.
requestDeltaPagination(query) ==
    [cursor |-> query.cursor,
     limit |-> IF query.limit > PageLimit THEN PageLimit ELSE query.limit]

\* ----------------------------------------------------- ItemModel's writes

\* What a write hands back: the tables as it leaves them.
Db(tbl, chs, cseq, iseq, now, shs, shu) ==
    [items |-> tbl, changes |-> chs, changeSeq |-> cseq, itemSeq |-> iseq,
     clock |-> now, shares |-> shs, shareUsers |-> shu]

\* The item saveFromRawContent writes: the user's item of that name with its
\* content and updated_time replaced, or a new item.
SavedItem(userId, name, buffer, saveOptions) ==
    LET existing == loadByName(items, userId, name)
    IN  IF existing = NoItem
        THEN [id |-> itemSeq + 1, name |-> name, owner_id |-> userId,
              content |-> buffer, created_time |-> clock + 1,
              updated_time |-> clock + 1, jop_share_id |-> saveOptions.shareId]
        ELSE [existing EXCEPT
                !.content = buffer,
                !.updated_time = clock + 1,
                !.jop_share_id = IF saveOptions.shareId # NoShare
                                 THEN saveOptions.shareId ELSE @]

\* saveFromRawContent appending its Change without advancing the sequence.
saveFromRawContent_SameSeq(userId, name, buffer, saveOptions) ==
    LET existing == loadByName(items, userId, name)
        item == SavedItem(userId, name, buffer, saveOptions)
        type == IF existing = NoItem THEN "create" ELSE "update"
        seq == IF changeSeq = 0 THEN 1 ELSE changeSeq
    IN  Db((items \ {existing}) \cup {item},
           Append(changes, NewChange(seq, item, type, clock + 1)),
           seq,
           IF existing = NoItem THEN itemSeq + 1 ELSE itemSeq,
           clock + 1, shares, shareUsers)

\* saveFromRawContent inserting a new row without looking for the user's
\* item of that name.
saveFromRawContent_Insert(userId, name, buffer, saveOptions) ==
    LET item == [id |-> itemSeq + 1, name |-> name, owner_id |-> userId,
                 content |-> buffer, created_time |-> clock + 1,
                 updated_time |-> clock + 1, jop_share_id |-> saveOptions.shareId]
    IN  Db(items \cup {item},
           Append(changes, NewChange(changeSeq + 1, item, "create", clock + 1)),
           changeSeq + 1, itemSeq + 1, clock + 1, shares, shareUsers)

\* ItemModel.saveFromRawContent: one transaction that writes the item and
\* appends its Change.
saveFromRawContent(userId, name, buffer, saveOptions) ==
    LET existing == loadByName(items, userId, name)
        item == SavedItem(userId, name, buffer, saveOptions)
        type == IF existing = NoItem THEN "create" ELSE "update"
    IN  Db((items \ {existing}) \cup {item},
           Append(changes, NewChange(changeSeq + 1, item, type, clock + 1)),
           changeSeq + 1,
           IF existing = NoItem THEN itemSeq + 1 ELSE itemSeq,
           clock + 1, shares, shareUsers)

\* The delete Changes of a set of items, in item id order.
RECURSIVE DeleteChanges(_, _, _)
DeleteChanges(del, seq, now) ==
    IF del = {} THEN <<>>
    ELSE LET i == CHOOSE x \in del : \A y \in del : x.id <= y.id
         IN  <<NewChange(seq + 1, i, "delete", now)>>
                \o DeleteChanges(del \ {i}, seq + 1, now)

\* The items a delete of `rows` removes: the rows themselves and, for each
\* row that is the root of a share, every item scoped to that share.
WithShareItems(rows) ==
    rows \cup {i \in items :
                \E s \in shares : \E r \in rows :
                    s.item_id = r.id /\ i.jop_share_id = s.id}

\* One transaction that removes `rows` (and the shares rooted at them) and
\* appends a delete Change for each item removed.
DeleteRows(rows) ==
    LET del == WithShareItems(rows)
        gone == {s \in shares : \E r \in rows : s.item_id = r.id}
        now == IF del = {} THEN clock ELSE clock + 1
    IN  Db(items \ del,
           changes \o DeleteChanges(del, changeSeq, now),
           changeSeq + Cardinality(del), itemSeq, now,
           shares \ gone,
           {su \in shareUsers : \A s \in gone : su[1] # s.id})

\* ItemModel.deleteForUser: removes the item, if it is still there and still
\* one of the user's.
deleteForUser(userId, item) ==
    DeleteRows({i \in items : i.id = item.id /\ Visible(userId, i)})

\* ItemModel.deleteAll: removes every item of the user.
deleteAll(userId) ==
    DeleteRows({i \in items : i.owner_id = userId})

\* A transaction that fails and is rolled back, or a call that writes
\* nothing: the tables stay as they are.
Unchanged == Db(items, changes, changeSeq, itemSeq, clock, shares, shareUsers)

\* A transaction that fails after its Change drew a sequence number: the
\* tables stay as they are, and the number is not handed out again.
RolledBack(db) == [Unchanged EXCEPT !.changeSeq = db.changeSeq]

NoUpload == [k \in {} |-> NoFile]
Upload(userId, pathId, file) == [k \in {<<userId, pathId>>} |-> file]

\* The tables take the values a write hands back; `up` is the upload the
\* write stored, if it stored one.
Commit(db, up) ==
    /\ uploaded' = [k \in DOMAIN uploaded |->
            IF k \in DOMAIN up THEN up[k]
            ELSE IF /\ RowsByName(items, k[1], pathToName(k[2])) # {}
                    /\ RowsByName(db.items, k[1], pathToName(k[2])) = {}
                 THEN NoFile
                 ELSE uploaded[k]]
    /\ uncompacted' = uncompacted
                        \o SubSeq(db.changes, Len(changes) + 1, Len(db.changes))
    /\ items' = db.items
    /\ changes' = db.changes
    /\ changeSeq' = db.changeSeq
    /\ itemSeq' = db.itemSeq
    /\ clock' = db.clock
    /\ shares' = db.shares
    /\ shareUsers' = db.shareUsers

\* ---------------------------------------------------------------- requests

\* checked, wrote and again are history: whether the request's
\* checkIfAllowed call has returned without throwing, how many Changes the
\* request appended, and whether its save stored the bytes the last upload
\* to that path had stored.
Idle ==
    [kind |-> "none", pc |-> "idle", user |-> "", path |-> "", file |-> NoFile,
     share_id |-> NoShare, button |-> FALSE, item |-> NoItem,
     buffer |-> EmptyBuffer, error |-> NoError, resp |-> NoItem, body |-> "",
     checked |-> FALSE, wrote |-> 0, again |-> FALSE]

\* A request as its handler is entered.
Request(kind, user, path) ==
    [Idle EXCEPT !.kind = kind, !.user = user, !.path = path]

\* The handler has returned (error = none) or thrown.
Finished(r, error, resp, body) ==
    [r EXCEPT !.pc = "done", !.error = error, !.resp = resp, !.body = body]

\* The request after a write that left the tables as db.
Wrote(r, db) ==
    [r EXCEPT !.wrote = @ + (Len(db.changes) - Len(changes)),
              !.again = r.kind = "put" /\ uploaded[<<r.user, r.path>>] = r.file]

UploadOf(p, kind) == [proc |-> p, kind |-> kind]

\* itemFromPath looking the name up without the user id.
itemFromPath_AnyTenant(userId, pathId, mustExists) ==
    LET rows == {i \in items : i.name = pathToName(pathId)}
        item == IF rows = {} THEN NoItem
                ELSE CHOOSE i \in rows : \A j \in rows : i.id <= j.id
    IN  [item |-> item,
         error |-> IF mustExists /\ item = NoItem THEN "NotFound" ELSE NoError]

\* itemFromPath returning null instead of throwing when nothing is found.
itemFromPath_NoThrow(userId, pathId, mustExists) ==
    [item |-> loadByName(items, userId, pathToName(pathId)), error |-> NoError]

\* itemFromPath: the user's item at the path; throws NotFound when it must
\* exist and does not.
itemFromPath(userId, pathId, mustExists) ==
    LET item == loadByName(items, userId, pathToName(pathId))
    IN  [item |-> item,
         error |-> IF mustExists /\ item = NoItem THEN "NotFound" ELSE NoError]

\* router.get('api/items/:id')
ApiItemsGet(p) ==
    /\ req[p].pc = "idle"
    /\ \E u \in scope.users, path \in RootPaths \cup PathsOf(scope.names) :
        LET r == itemFromPath(u, path, TRUE)
        IN  req' = [req EXCEPT ![p] =
                Finished(Request("get", u, path), r.error,
                         IF r.error = NoError THEN toApiOutput(r.item) ELSE NoItem,
                         "")]
    /\ UNCHANGED <<scope, env, dbVars, tmpFiles, sync, listing, txs, uploaded, uncompacted, menuBar>>

\* router.del rethrowing every error.
DelCatch_Rethrow(error) == error

\* router.del: what the catch block lets through.
DelCatch(error) == IF error = "NotFound" THEN NoError ELSE error

\* router.del on the root without the environment test.
DelRootError_NoEnvTest(e) == NoError

\* router.del on the root: the error thrown before deleteAll is reached.
DelRootError(e) == IF e # "dev" THEN "MethodNotAllowed" ELSE NoError

\* router.del('api/items/:id') with the root path: refused outside dev,
\* else deleteAll.
ApiItemsDelRoot(p) ==
    /\ req[p].pc = "idle"
    /\ \E u \in scope.users, path \in RootPaths :
        LET err == DelRootError(env)
            db == IF err = NoError THEN deleteAll(u) ELSE Unchanged
        IN  /\ db.changeSeq <= scope.limit
            /\ Commit(db, NoUpload)
            /\ req' = [req EXCEPT ![p] =
                    Finished(Wrote(Request("del", u, path), db), DelCatch(err),
                             NoItem, "")]
    /\ UNCHANGED <<scope, env, tmpFiles, sync, listing, txs, menuBar>>

\* router.del('api/items/:id'), first await: itemFromPath.
ApiItemsDelResolve(p) ==
    /\ req[p].pc = "idle"
    /\ \E u \in scope.users, path \in PathsOf(scope.names) :
        LET r == itemFromPath(u, path, TRUE)
            q == Request("del", u, path)
        IN  req' = [req EXCEPT ![p] =
                IF r.error # NoError
                THEN Finished(q, DelCatch(r.error), NoItem, "")
                ELSE [q EXCEPT !.pc = "del_check", !.item = r.item]]
    /\ UNCHANGED <<scope, env, dbVars, tmpFiles, sync, listing, txs, uploaded, uncompacted, menuBar>>

\* router.del asking the evaluator about an update instead of a delete.
DelCheck_WrongAction(owner, item) == checkIfAllowed(owner, "Update", item)

\* router.del going on to deleteForUser without the permission check.
DelCheck_Skipped(owner, item) == NoError

\* router.del: the error its permission check throws, or none.
DelCheck(owner, item) == checkIfAllowed(owner, "Delete", item)

\* router.del, second await: checkIfAllowed(ctx.owner, AclAction.Delete, item).
ApiItemsDelCheck(p) ==
    /\ req[p].pc = "del_check"
    /\ LET err == DelCheck(req[p].user, req[p].item)
       IN  req' = [req EXCEPT ![p] =
                IF err # NoError
                THEN Finished(req[p], DelCatch(err), NoItem, "")
                ELSE [req[p] EXCEPT !.pc = "del_delete", !.checked = TRUE]]
    /\ UNCHANGED <<scope, env, dbVars, tmpFiles, sync, listing, txs, uploaded, uncompacted, menuBar>>

\* router.del, third await: deleteForUser(ctx.owner.id, item).
ApiItemsDelDelete(p) ==
    /\ req[p].pc = "del_delete"
    /\ LET db == deleteForUser(req[p].user, req[p].item)
       IN  /\ db.changeSeq <= scope.limit
           /\ Commit(db, NoUpload)
           /\ req' = [req EXCEPT ![p] =
                    Finished(Wrote(req[p], db), NoError, NoItem, "")]
    /\ UNCHANGED <<scope, env, tmpFiles, sync, listing, txs, menuBar>>

\* router.get('api/items/:id/content'), first await: itemFromPath.
ApiContentGetResolve(p) ==
    /\ req[p].pc = "idle"
    /\ \E u \in scope.users, path \in PathsOf(scope.names) :
        LET r == itemFromPath(u, path, TRUE)
            q == Request("getContent", u, path)
        IN  req' = [req EXCEPT ![p] =
                IF r.error # NoError
                THEN Finished(q, r.error, NoItem, "")
                ELSE [q EXCEPT !.pc = "content_read", !.item = r.item]]
    /\ UNCHANGED <<scope, env, dbVars, tmpFiles, sync, listing, txs, uploaded, uncompacted, menuBar>>

\* router.get('api/items/:id/content'), second await: serializedContent(item.id),
\* then respondWithItemContent.
ApiContentGetRead(p) ==
    /\ req[p].pc = "content_read"
    /\ req' = [req EXCEPT ![p] =
            IF loadById(items, req[p].item.id) = NoItem
            THEN Finished(req[p], "NotFound", NoItem, "")
            ELSE Finished(req[p], NoError, toApiOutput(req[p].item),
                          serializedContent(items, req[p].item.id))]
    /\ UNCHANGED <<scope, env, dbVars, tmpFiles, sync, listing, txs, uploaded, uncompacted, menuBar>>

\* formParse: the upload's file part, if any, is written to a temporary file.
formParse(p, kind, file) ==
    IF file = NoFile THEN tmpFiles ELSE tmpFiles \cup {UploadOf(p, kind)}

\* safeRemove(filePath)
safeRemove(p, kind) == tmpFiles \ {UploadOf(p, kind)}

\* The put handler using the path id itself as the item name.
PutName_PathId(pathId) == pathId

\* The name the put handler saves under: itemModel.pathToName(path.id).
PutName(pathId) == pathToName(pathId)

\* router.put('api/items/:id/content'), first await: formParse(ctx.req).
ApiContentPutParse(p) ==
    /\ req[p].pc = "idle"
    /\ \E u \in scope.users, path \in PathsOf(scope.names), file \in scope.files,
          sid \in {NoShare} \cup scope.shareIds :
        /\ req' = [req EXCEPT ![p] =
                [Request("put", u, path) EXCEPT
                    !.pc = "put_read", !.file = file, !.share_id = sid]]
        /\ tmpFiles' = formParse(p, "put", file)
    /\ UNCHANGED <<scope, env, dbVars, sync, listing, txs, uploaded, uncompacted, menuBar>>

\* The put handler saving an empty buffer whatever the body holds.
PutBuffer_Empty(file) == EmptyBuffer

\* The buffer the put handler saves: the file's bytes, or an empty buffer
\* when the body has no file.
PutBuffer(file) == IF file = NoFile THEN EmptyBuffer ELSE file

\* The put handler going on to the save whatever the query carries.
PutAfterRead_NoCheck(r) == "put_save"

\* The step of the put handler that follows its buffer: the ACL check when
\* the query carries a share_id, else the save.
PutAfterRead(r) == IF r.share_id # NoShare THEN "put_check" ELSE "put_save"

\* The put handler's finally block returning instead of rethrowing.
PutLeave_SwallowError(r, error, resp) ==
    IF r.file # NoFile
    THEN [r EXCEPT !.pc = "put_finally", !.error = NoError, !.resp = resp]
    ELSE Finished(r, NoError, resp, "")

\* The put handler leaves its try block: through the finally block's
\* safeRemove when there is a file, else at once.
PutLeave(r, error, resp) ==
    IF r.file # NoFile
    THEN [r EXCEPT !.pc = "put_finally", !.error = error, !.resp = resp]
    ELSE Finished(r, error, resp, "")

\* router.put, second await: fs.readFile(filePath), which may fail.
ApiContentPutRead(p) ==
    /\ req[p].pc = "put_read"
    /\ \/ req' = [req EXCEPT ![p] =
                [req[p] EXCEPT !.pc = PutAfterRead(req[p]),
                               !.buffer = PutBuffer(req[p].file)]]
       \/ /\ req[p].file # NoFile
          /\ req' = [req EXCEPT ![p] = PutLeave(req[p], "StorageError", NoItem)]
    /\ UNCHANGED <<scope, env, dbVars, tmpFiles, sync, listing, txs, uploaded, uncompacted, menuBar>>

\* router.put, third await: checkIfAllowed(ctx.owner, AclAction.Create,
\* { jop_share_id }) when the query carries a share_id.
ApiContentPutCheck(p) ==
    /\ req[p].pc = "put_check"
    /\ LET err == checkIfAllowed(req[p].user, "Create",
                        [NoItem EXCEPT !.jop_share_id = req[p].share_id])
       IN  req' = [req EXCEPT ![p] =
                IF err # NoError THEN PutLeave(req[p], err, NoItem)
                ELSE [req[p] EXCEPT !.pc = "put_save", !.checked = TRUE]]
    /\ UNCHANGED <<scope, env, dbVars, tmpFiles, sync, listing, txs, uploaded, uncompacted, menuBar>>

\* router.put, fourth await: saveFromRawContent(ctx.owner, name, buffer,
\* saveOptions); the transaction commits, or fails, before or after its
\* Change drew a sequence number, and is rolled back.
ApiContentPutSave(p) ==
    /\ req[p].pc = "put_save"
    /\ LET name == PutName(req[p].path)
           saveOptions == [shareId |-> req[p].share_id]
           db == saveFromRawContent(req[p].user, name, req[p].buffer, saveOptions)
       IN  \/ /\ db.changeSeq <= scope.limit
              /\ Commit(db, Upload(req[p].user, req[p].path, req[p].file))
              /\ req' = [req EXCEPT ![p] =
                    PutLeave(Wrote(req[p], db), NoError,
                             toApiOutput(SavedItem(req[p].user, name,
                                                   req[p].buffer, saveOptions)))]
           \/ /\ \E failed \in {Unchanged, RolledBack(db)} :
                    /\ failed.changeSeq <= scope.limit
                    /\ Commit(failed, NoUpload)
              /\ req' = [req EXCEPT ![p] = PutLeave(req[p], "StorageError", NoItem)]
    /\ UNCHANGED <<scope, env, tmpFiles, sync, listing, txs, menuBar>>

\* router.put, the finally block: safeRemove(filePath).
ApiContentPutFinally(p) ==
    /\ req[p].pc = "put_finally"
    /\ tmpFiles' = safeRemove(p, "put")
    /\ req' = [req EXCEPT ![p] = Finished(req[p], req[p].error, req[p].resp, "")]
    /\ UNCHANGED <<scope, env, dbVars, sync, listing, txs, uploaded, uncompacted, menuBar>>

\* router.post('items'), first await: formParse(ctx.req).
WebItemsPostParse(p) ==
    /\ req[p].pc = "idle"
    /\ \E u \in scope.users, file \in scope.files, button \in BOOLEAN :
        /\ req' = [req EXCEPT ![p] =
                [Request("post", u, "") EXCEPT
                    !.pc = "post_form", !.file = file, !.button = button]]
        /\ tmpFiles' = formParse(p, "post", file)
    /\ UNCHANGED <<scope, env, dbVars, sync, listing, txs, uploaded, uncompacted, menuBar>>

\* router.post('items'), after formParse: deleteAll on the delete_all
\* button, else 'Invalid form button'.
WebItemsPostForm(p) ==
    /\ req[p].pc = "post_form"
    /\ LET db == IF req[p].button THEN deleteAll(req[p].user) ELSE Unchanged
       IN  /\ db.changeSeq <= scope.limit
           /\ Commit(db, NoUpload)
           /\ req' = [req EXCEPT ![p] =
                Finished(Wrote(req[p], db),
                         IF req[p].button THEN NoError ELSE "InvalidFormButton",
                         NoItem, "")]
    /\ UNCHANGED <<scope, env, tmpFiles, sync, listing, txs, menuBar>>

\* ItemModel.loadWithContent: the item with that id, whoever owns it, or
\* null.
loadWithContent(tbl, id) == loadById(tbl, id)

\* router.get('items/:id/content'), the web user-content route: the item is
\* loaded by the id in the path and its content sent.
WebItemsContentGet(p) ==
    /\ req[p].pc = "idle"
    /\ \E u \in scope.users, id \in 1..(itemSeq + 1) :
        LET item == loadWithContent(items, id)
        IN  req' = [req EXCEPT ![p] =
                IF item = NoItem
                THEN Finished(Request("webContent", u, ""), "NotFound", NoItem, "")
                ELSE Finished(Request("webContent", u, ""), NoError,
                              toApiOutput(item), item.content)]
    /\ UNCHANGED <<scope, env, dbVars, tmpFiles, sync, listing, txs, uploaded, uncompacted, menuBar>>

\* The response has been sent: the request is over.
Return(p) ==
    /\ req[p].pc = "done"
    /\ req' = [req EXCEPT ![p] = Idle]
    /\ UNCHANGED <<scope, env, dbVars, tmpFiles, sync, listing, txs, uploaded, uncompacted, menuBar>>

\* A user shares one of their items with other users: the item becomes the
\* root of the share.
ShareItem ==
    /\ shares = {}
    /\ \E i \in items, sid \in scope.shareIds, others \in SUBSET scope.users :
        /\ i.owner_id \notin others
        /\ shares' = {[id |-> sid, owner_id |-> i.owner_id, item_id |-> i.id]}
        /\ shareUsers' = {<<sid, u>> : u \in others}
    /\ UNCHANGED <<scope, env, items, changes, changeSeq, itemSeq, clock, req,
                   tmpFiles, sync, listing, txs, uploaded, uncompacted, menuBar>>

\* ------------------------------------------------------------- sync client

\* asked is the cursor the last page was requested with, page its change
\* ids, got the ids of all pages so far, upto the ids of the user's changes
\* in the log when the last page was served, polled whether the client has
\* called again after being told there was no more.
NoSync == [pc |-> "idle", user |-> "", asked |-> 0, cursor |-> 0,
           page |-> <<>>, got |-> <<>>, upto |-> <<>>, polled |-> FALSE]

Ids(chs) == [k \in 1..Len(chs) |-> chs[k].id]

\* The delta route paging from the start whatever cursor the query carries.
ApiItemsDelta_NoCursor(owner, query) ==
    delta(changes, owner, requestDeltaPagination([query EXCEPT !.cursor = 0]))

\* The delta route asking for the changes of no owner.
ApiItemsDelta_NoOwner(owner, query) ==
    delta(changes, "", requestDeltaPagination(query))

\* router.get('api/items/:id/delta'): the :id of the path is not used.
ApiItemsDelta(owner, query) ==
    delta(changes, owner, requestDeltaPagination(query))

\* A client starts a sync pass from the empty cursor.
SyncStart ==
    /\ sync.pc \in {"idle", "drained"}
    /\ \E u \in scope.users : sync' = [NoSync EXCEPT !.pc = "paging", !.user = u]
    /\ UNCHANGED <<scope, env, dbVars, req, tmpFiles, listing, txs, uploaded, uncompacted, menuBar>>

\* The client asks for the next page with the cursor it was last given.
SyncPage ==
    /\ sync.pc = "paging"
    /\ \E limit \in 1..(PageLimit + 1) :
        LET r == ApiItemsDelta(sync.user, [cursor |-> sync.cursor, limit |-> limit])
        IN  sync' = [sync EXCEPT
                !.pc = IF r.has_more THEN "paging" ELSE "drained",
                !.asked = sync.cursor,
                !.cursor = r.cursor,
                !.page = Ids(r.items),
                !.got = @ \o Ids(r.items),
                !.upto = Ids(SelectSeq(changes, LAMBDA c : c.owner_id = sync.user))]
    /\ UNCHANGED <<scope, env, dbVars, req, tmpFiles, listing, txs, uploaded, uncompacted, menuBar>>

\* A caught-up client polls again: its next delta call carries the cursor it
\* was last given.
SyncPoll ==
    /\ sync.pc = "drained"
    /\ sync' = [sync EXCEPT !.pc = "paging", !.polled = TRUE]
    /\ UNCHANGED <<scope, env, dbVars, req, tmpFiles, listing, txs, uploaded, uncompacted, menuBar>>

\* -------------------------------------------------------------- compaction

\* The log with an item's history coalesced into its first record.
compact_KeepFirst(chs, id) ==
    LET first == CHOOSE k \in 1..Len(chs) :
                    /\ chs[k].item_id = id
                    /\ \A m \in 1..(k - 1) : chs[m].item_id # id
    IN  SelectSeq(chs, LAMBDA c : c.item_id # id \/ c = chs[first])

\* The log with the create, update ... delete history of an item coalesced
\* into its terminal record, the delete, which keeps its sequence number.
compact(chs, id) ==
    SelectSeq(chs, LAMBDA c : c.item_id # id \/ c.type = "delete")

\* An item's history can be coalesced once it ends with a delete and holds
\* more than that record.
Compactable(chs, id) ==
    LET cs == SelectSeq(chs, LAMBDA c : c.item_id = id)
    IN  /\ Len(cs) > 1
        /\ cs[Len(cs)].type = "delete"

\* The Change Log compacts the history of one deleted item; the retention
\* horizon is not modelled, so any such history may be compacted at any time.
Compact ==
    /\ \E id \in 1..itemSeq :
        /\ Compactable(changes, id)
        /\ changes' = compact(changes, id)
    /\ UNCHANGED <<scope, env, items, changeSeq, itemSeq, clock, shares,
                   shareUsers, req, tmpFiles, sync, listing, txs, uploaded,
                   uncompacted, menuBar>>

\* ---------------------------------------------------------------- listings

OrderFields == {"name", "updated_time"}
OrderDirs == {"ASC", "DESC"}

\* Names compare byte by byte: an upper-case letter sorts before a lower-case
\* one.
NameRank(name) == IF name = "" THEN 0 ELSE IF name = "Note.md" THEN 1 ELSE 2

\* A row's position in an order: the value of the order field, then the id
\* as the tie-break.
PositionOf(i, by) ==
    [value |-> IF by = "name" THEN NameRank(i.name) ELSE i.updated_time,
     id |-> i.id]

\* The position no row has: a listing starts there.
NoPosition == [value |-> 0, id |-> 0]

\* Position a comes before position b: by value in the order's direction,
\* equal values by id ascending.
PositionBefore(a, b, dir) ==
    IF a.value # b.value
    THEN (IF dir = "ASC" THEN a.value < b.value ELSE a.value > b.value)
    ELSE a.id < b.id

\* The rows in the order asked for.
RECURSIVE SortRows(_, _)
SortRows(rows, order) ==
    IF rows = {} THEN <<>>
    ELSE LET first == CHOOSE i \in rows : \A j \in rows \ {i} :
                        PositionBefore(PositionOf(i, order.by),
                                       PositionOf(j, order.by), order.dir)
         IN  <<first>> \o SortRows(rows \ {first}, order)

\* The direct descendants of a name among the user's items; the names here
\* have no folder part, so every item is a child of the root and of nothing
\* else.
ChildRows(tbl, userId, parentName) ==
    IF parentName = "" THEN {i \in tbl : Visible(userId, i)} ELSE {}

\* ItemModel.children: one page of the children after the cursor's position,
\* with the cursor of the page's last row.
children(tbl, userId, parentName, pagination) ==
    LET order == pagination.order
        rest == {i \in ChildRows(tbl, userId, parentName) :
                    \/ pagination.cursor = NoPosition
                    \/ PositionBefore(pagination.cursor,
                                      PositionOf(i, order.by), order.dir)}
        page == Take(SortRows(rest, order), pagination.limit)
    IN  [items |-> page,
         cursor |-> IF page = <<>> THEN pagination.cursor
                    ELSE PositionOf(page[Len(page)], order.by),
         has_more |-> Cardinality(rest) > Len(page)]

\* requestPagination: the pagination a listing request's query asks for; the
\* limit is capped by the engine's maximum.
requestPagination(query) ==
    [cursor |-> query.cursor,
     limit |-> IF query.limit > PageLimit THEN PageLimit ELSE query.limit,
     order |-> query.order]

\* router.get('api/items/:id/children')
ApiItemsChildren(owner, pathId, query) ==
    children(items, owner, pathToName(pathId), requestPagination(query))

\* first is the ids of the rows the listing held when its first page was
\* asked for, got the ids of the rows of all pages so far.
NoListing == [pc |-> "idle", user |-> "", path |-> "",
              order |-> [by |-> "name", dir |-> "ASC"],
              cursor |-> NoPosition, got |-> <<>>, first |-> {}]

\* The client's pass after a page r of the listing.
Listed(l, r) ==
    [l EXCEPT !.pc = IF r.has_more THEN "paging" ELSE "drained",
              !.cursor = r.cursor,
              !.got = @ \o Ids(r.items)]

\* A client asks for the first page of a listing.
ListStart ==
    /\ listing.pc \in {"idle", "drained"}
    /\ \E u \in scope.users, path \in RootPaths, by \in OrderFields,
          dir \in OrderDirs, limit \in 1..(PageLimit + 1) :
        LET order == [by |-> by, dir |-> dir]
            r == ApiItemsChildren(u, path,
                    [cursor |-> NoPosition, limit |-> limit, order |-> order])
        IN  listing' = Listed([NoListing EXCEPT
                                !.user = u, !.path = path, !.order = order,
                                !.first = {i.id : i \in
                                    ChildRows(items, u, pathToName(path))}], r)
    /\ UNCHANGED <<scope, env, dbVars, req, tmpFiles, sync, txs, uploaded, uncompacted, menuBar>>

\* The client asks for the next page with the cursor it was last given.
ListPage ==
    /\ listing.pc = "paging"
    /\ \E limit \in 1..(PageLimit + 1) :
        listing' = Listed(listing,
            ApiItemsChildren(listing.user, listing.path,
                [cursor |-> listing.cursor, limit |-> limit,
                 order |-> listing.order]))
    /\ UNCHANGED <<scope, env, dbVars, req, tmpFiles, sync, txs, uploaded, uncompacted, menuBar>>

\* ------------------------------------------------------ model instances

\* A call chain that is not using a model: inst is the instance it obtained,
\* depth the transactions it has started and not yet ended, popped the chain
\* that had started the transaction it last ended.
NoChain == [pc |-> "idle", inst |-> 0, depth |-> 0, popped |-> ""]

\* instances[k] is the transaction stack of the k-th instance made: the
\* chains that started its open transactions, innermost last.
NoTxs == [instances |-> <<>>, chains |-> [p \in Procs |-> NoChain]]

\* The factory keeping one instance and handing it out again.
Models_item_Cached(instances) ==
    IF instances = <<>>
    THEN [instances |-> <<<<>>>>, id |-> 1]
    ELSE [instances |-> instances, id |-> 1]

\* Models.item(): a new ItemModel, with its own empty transaction stack.
Models_item(instances) ==
    [instances |-> Append(instances, <<>>), id |-> Len(instances) + 1]

\* A call chain obtains a model for its next call: ctx.models.item().
ChainObtain(p) ==
    /\ txs.chains[p].pc = "idle"
    /\ Len(txs.instances) < MaxInstances
    /\ LET m == Models_item(txs.instances)
       IN  txs' = [instances |-> m.instances,
                   chains |-> [txs.chains EXCEPT ![p] =
                        [NoChain EXCEPT !.pc = "calling", !.inst = m.id]]]
    /\ UNCHANGED <<scope, env, dbVars, req, tmpFiles, sync, listing, uploaded, uncompacted, menuBar>>

\* The awaited model call starts a transaction, possibly inside one it has
\* already started: the transaction goes on the instance's stack.
TxStart(p) ==
    /\ txs.chains[p].pc = "calling"
    /\ txs.chains[p].depth < MaxDepth
    /\ txs' = [instances |-> [txs.instances EXCEPT
                        ![txs.chains[p].inst] = Append(@, p)],
               chains |-> [txs.chains EXCEPT ![p].depth = @ + 1]]
    /\ UNCHANGED <<scope, env, dbVars, req, tmpFiles, sync, listing, uploaded, uncompacted, menuBar>>

\* The model call commits or rolls back: the transaction on top of the
\* instance's stack is popped.
TxEnd(p) ==
    /\ txs.chains[p].pc = "calling"
    /\ txs.chains[p].depth > 0
    /\ LET stack == txs.instances[txs.chains[p].inst]
       IN  /\ stack # <<>>
           /\ txs' = [instances |-> [txs.instances EXCEPT
                            ![txs.chains[p].inst] = SubSeq(stack, 1, Len(stack) - 1)],
                      chains |-> [txs.chains EXCEPT
                            ![p].depth = @ - 1,
                            ![p].popped = stack[Len(stack)]]]
    /\ UNCHANGED <<scope, env, dbVars, req, tmpFiles, sync, listing, uploaded, uncompacted, menuBar>>

\* The model call has returned and the chain discards the instance.
ChainReturn(p) ==
    /\ txs.chains[p].pc = "calling"
    /\ txs.chains[p].depth = 0
    /\ txs' = [txs EXCEPT !.chains[p] = NoChain]
    /\ UNCHANGED <<scope, env, dbVars, req, tmpFiles, sync, listing, uploaded, uncompacted, menuBar>>

\* ---------------------------------------------------- the desktop menu bar

\* The root menus updateMenu builds (rootMenus), and the values a plugin
\* gives as the parent or the location of what it adds.
RootMenuIds == {"file", "edit", "view", "go", "folder", "note", "tools", "help"}
ParentIds == {"tools", "note", "nowhere"}
Locations == {"tools", "nowhere", "context"}
RouteNames == {"Main", "Config"}

SeqsUpTo(S, n) == UNION {[1..m -> S] : m \in 0..n}

isContextMenuItemLocation(location) == location = "context"

separator == [type |-> "separator", location |-> ""]
MenuEntry(type, location) == [type |-> type, location |-> location]

\* The submenus of the root menus before anything of a plugin is added;
\* the application's own entries are left out.
NoSubmenus == [id \in RootMenuIds |-> <<>>]

\* What updateMenu has built so far: the submenus, what it has logged, and
\* whether it has thrown.
Built(submenus, logged, threw) ==
    [submenus |-> submenus, logged |-> logged, threw |-> threw]

\* updateMenu, the PluginManager's menu items: the parent is the root menu
\* the item names, or else the string 'tools'; a string has no submenu, and
\* the push on it throws a TypeError.
RECURSIVE PushManagerItems(_, _)
PushManagerItems(b, pluginMenuItems) ==
    IF pluginMenuItems = <<>> \/ b.threw THEN b
    ELSE LET item == Head(pluginMenuItems)
             itemParent == IF item \in RootMenuIds
                           THEN [submenu |-> TRUE, id |-> item]
                           ELSE [submenu |-> FALSE, id |-> "tools"]
         IN  PushManagerItems(
                IF itemParent.submenu
                THEN [b EXCEPT !.submenus[itemParent.id] =
                        @ \o <<separator, MenuEntry("managerItem", item)>>]
                ELSE [b EXCEPT !.threw = TRUE],
                Tail(pluginMenuItems))

\* updateMenu, the views of props.pluginMenuItems or props.pluginMenus: a
\* context-menu location is passed over, a location that names no root menu
\* is logged, and anything else is pushed to the root menu's submenu.
RECURSIVE PushViews(_, _, _)
PushViews(b, views, type) ==
    IF views = <<>> \/ b.threw THEN b
    ELSE LET location == Head(views)
         IN  PushViews(
                IF isContextMenuItemLocation(location) THEN b
                ELSE IF location \notin RootMenuIds
                     THEN [b EXCEPT !.logged = Append(@, location)]
                     ELSE [b EXCEPT !.submenus[location] =
                                Append(@, MenuEntry(type, location))],
                Tail(views), type)

\* updateMenu up to its template: the three loops in the order of the code.
BuildRootMenus(managerItems, pluginMenuItems, pluginMenus) ==
    PushViews(
        PushViews(PushManagerItems(Built(NoSubmenus, <<>>, FALSE), managerItems),
                  pluginMenuItems, "pluginMenuItem"),
        pluginMenus, "pluginMenu")

\* The template updateMenu hands to setMenu: the root menus on the Main
\* route, a File and Edit menu with nothing of a plugin on any other.
Template(routeName, built) ==
    IF routeName = "Main" THEN built.submenus ELSE NoSubmenus

\* One run of an effect: timeoutId is the closure's variable (0 for null),
\* timer the state of the timer setTimeout made, the props those the effect
\* closed over; cleaned, updates, late, outcome, managerItems and logged are
\* history: whether the cleanup has run, how many times the run has
\* updated, whether it did so after its cleanup, how its callback ended,
\* and what the callback read and logged.
Run(timeoutId, routeName, pluginMenuItems, pluginMenus) ==
    [timeoutId |-> timeoutId, timer |-> "pending", routeName |-> routeName,
     pluginMenuItems |-> pluginMenuItems, pluginMenus |-> pluginMenus,
     cleaned |-> FALSE, updates |-> 0, late |-> FALSE, outcome |-> "none",
     managerItems |-> <<>>, logged |-> <<>>]

\* menu is the component's state (by: the run that set it, 0 for null);
\* applied is the run whose props the application menu's checked and
\* enabled states were last set from.
NoMenu == [by |-> 0, template |-> NoSubmenus]
NoMenuBar == [build |-> <<>>, states |-> <<>>, timerSeq |-> 0,
              menu |-> NoMenu, applied |-> 0]

\* clearTimeout: a timer that has not fired never will; null clears nothing.
clearTimeout(timer, timeoutId) ==
    IF timeoutId # 0 /\ timer = "pending" THEN "cleared" ELSE timer

\* An effect's cleanup that neither clears the timer nor forgets its id.
cleanup_Forgotten(run) == [run EXCEPT !.cleaned = TRUE]

\* The cleanup both effects return: clearTimeout(timeoutId); timeoutId = null.
cleanup(run) ==
    [run EXCEPT !.timer = clearTimeout(run.timer, run.timeoutId),
                !.timeoutId = 0, !.cleaned = TRUE]

\* An effect may run when it has not run yet or its last run was cleaned up.
MayRun(runs) ==
    /\ Len(runs) < scope.menu.runs
    /\ IF runs = <<>> THEN TRUE ELSE runs[Len(runs)].cleaned

\* useMenu's effect runs (mount, or one of its dependencies has changed):
\* timeoutId = setTimeout(updateMenu, 50).
UseMenuEffect ==
    /\ MayRun(menuBar.build)
    /\ \E routeName \in scope.menu.routes,
          pluginMenuItems \in SeqsUpTo(scope.menu.locations, MaxPluginItems),
          pluginMenus \in SeqsUpTo(scope.menu.locations, MaxPluginItems) :
        menuBar' = [menuBar EXCEPT
            !.timerSeq = @ + 1,
            !.build = Append(@, Run(menuBar.timerSeq + 1, routeName,
                                    pluginMenuItems, pluginMenus))]
    /\ UNCHANGED <<scope, env, dbVars, req, tmpFiles, sync, listing, txs, uploaded, uncompacted>>

\* useMenuStates' effect runs: timeoutId = setTimeout(scheduleUpdate, 150).
UseMenuStatesEffect ==
    /\ MayRun(menuBar.states)
    /\ menuBar' = [menuBar EXCEPT
            !.timerSeq = @ + 1,
            !.states = Append(@, Run(menuBar.timerSeq + 1, "", <<>>, <<>>))]
    /\ UNCHANGED <<scope, env, dbVars, req, tmpFiles, sync, listing, txs, uploaded, uncompacted>>

\* The cleanup of the last run of useMenu's effect (a dependency has
\* changed, or the component unmounts).
UseMenuCleanup ==
    /\ menuBar.build # <<>>
    /\ ~menuBar.build[Len(menuBar.build)].cleaned
    /\ menuBar' = [menuBar EXCEPT !.build[Len(menuBar.build)] = cleanup(@)]
    /\ UNCHANGED <<scope, env, dbVars, req, tmpFiles, sync, listing, txs, uploaded, uncompacted>>

\* The cleanup of the last run of useMenuStates' effect.
UseMenuStatesCleanup ==
    /\ menuBar.states # <<>>
    /\ ~menuBar.states[Len(menuBar.states)].cleaned
    /\ menuBar' = [menuBar EXCEPT !.states[Len(menuBar.states)] = cleanup(@)]
    /\ UNCHANGED <<scope, env, dbVars, req, tmpFiles, sync, listing, txs, uploaded, uncompacted>>

\* A run's 50 ms timer fires and updateMenu runs to its end: it returns at
\* once when timeoutId is null, throws when a push throws, and else calls
\* setMenu with the template.
UpdateMenu ==
    \E k \in 1..Len(menuBar.build) :
        LET run == menuBar.build[k]
        IN  /\ run.timer = "pending"
            /\ \E managerItems \in SeqsUpTo(scope.menu.parents, MaxPluginItems) :
                LET built == BuildRootMenus(managerItems, run.pluginMenuItems,
                                            run.pluginMenus)
                    fired == [run EXCEPT !.timer = "fired"]
                IN  IF run.timeoutId = 0
                    THEN menuBar' = [menuBar EXCEPT !.build[k] = fired]
                    ELSE IF built.threw
                    THEN menuBar' = [menuBar EXCEPT !.build[k] =
                            [fired EXCEPT !.outcome = "TypeError",
                                          !.managerItems = managerItems]]
                    ELSE menuBar' = [menuBar EXCEPT
                            !.build[k] =
                                [fired EXCEPT !.outcome = "setMenu",
                                              !.updates = @ + 1,
                                              !.late = run.cleaned,
                                              !.managerItems = managerItems,
                                              !.logged = built.logged],
                            !.menu = [by |-> k,
                                      template |-> Template(run.routeName, built)]]
    /\ UNCHANGED <<scope, env, dbVars, req, tmpFiles, sync, listing, txs, uploaded, uncompacted>>

\* A run's 150 ms timer fires and scheduleUpdate runs: it returns at once
\* when timeoutId is null, and else sets timeoutId to null and sets the
\* enabled and checked states of the menu items from the run's props.
ScheduleUpdate ==
    \E k \in 1..Len(menuBar.states) :
        LET run == menuBar.states[k]
            fired == [run EXCEPT !.timer = "fired"]
        IN  /\ run.timer = "pending"
            /\ IF run.timeoutId = 0
               THEN menuBar' = [menuBar EXCEPT !.states[k] = fired]
               ELSE menuBar' = [menuBar EXCEPT
                        !.states[k] = [fired EXCEPT !.timeoutId = 0,
                                                    !.outcome = "applied",
                                                    !.updates = @ + 1,
                                                    !.late = run.cleaned],
                        !.applied = k]
    /\ UNCHANGED <<scope, env, dbVars, req, tmpFiles, sync, listing, txs, uploaded, uncompacted>>

\* --------------------------------------------------------------- the system

\* What the menu bar is given in a run: the routes shown, the parents and
\* locations the plugins name, and how many times each effect runs.
MenuScope(routes, parents, locations, runs) ==
    [routes |-> routes, parents |-> parents, locations |-> locations,
     runs |-> runs]

Scope(procs, users, names, files, shareIds, limit) ==
    [procs |-> procs, users |-> users, names |-> names, files |-> files,
     shareIds |-> shareIds, limit |-> limit,
     menu |-> MenuScope({"Main"}, {}, {}, 0)]

InitWith(sc) ==
    /\ scope = sc
    /\ env \in Envs
    /\ items = {}
    /\ changes = <<>>
    /\ changeSeq = 0
    /\ itemSeq = 0
    /\ clock = 0
    /\ shares = {}
    /\ shareUsers = {}
    /\ req = [p \in Procs |-> Idle]
    /\ tmpFiles = {}
    /\ sync = NoSync
    /\ listing = NoListing
    /\ txs = NoTxs
    /\ uncompacted = <<>>
    /\ menuBar = NoMenuBar
    /\ uploaded = [k \in Users \X PathsOf(Names) |-> NoFile]

\* Two tenants that may each hold the same name, two requests at a time, no
\* sharing.
Init == InitWith(Scope(Procs, Users, {"note.md"}, Bytes, {}, MaxChanges))

Next ==
    \/ \E p \in scope.procs : ApiItemsGet(p)
    \/ \E p \in scope.procs : ApiItemsDelRoot(p)
    \/ \E p \in scope.procs : ApiItemsDelResolve(p)
    \/ \E p \in scope.procs : ApiItemsDelCheck(p)
    \/ \E p \in scope.procs : ApiItemsDelDelete(p)
    \/ \E p \in scope.procs : ApiContentGetResolve(p)
    \/ \E p \in scope.procs : ApiContentGetRead(p)
    \/ \E p \in scope.procs : ApiContentPutParse(p)
    \/ \E p \in scope.procs : ApiContentPutRead(p)
    \/ \E p \in scope.procs : ApiContentPutSave(p)
    \/ \E p \in scope.procs : ApiContentPutFinally(p)
    \/ \E p \in scope.procs : Return(p)

Spec == Init /\ [][Next]_vars

\* Two tenants, two names that differ in case, one request at a time.
InitSeq == InitWith(Scope({"p1"}, Users, Names, Bytes, {}, MaxChanges))

SpecSeq == InitSeq /\ [][Next]_vars

\* Two tenants writing one after the other while a client pages through the
\* delta route.
InitSync == InitWith(Scope({"p1"}, Users, {"note.md"}, {"hello"}, {}, MaxChanges))

NextSync ==
    \/ \E p \in scope.procs : ApiItemsDelResolve(p)
    \/ \E p \in scope.procs : ApiItemsDelCheck(p)
    \/ \E p \in scope.procs : ApiItemsDelDelete(p)
    \/ \E p \in scope.procs : ApiContentPutParse(p)
    \/ \E p \in scope.procs : ApiContentPutRead(p)
    \/ \E p \in scope.procs : ApiContentPutSave(p)
    \/ \E p \in scope.procs : ApiContentPutFinally(p)
    \/ \E p \in scope.procs : Return(p)
    \/ SyncStart
    \/ SyncPage

SpecSync == InitSync /\ [][NextSync]_vars

\* Two tenants, one of whom may share an item with the other, two requests
\* at a time on two names; uploads may carry a share_id.
InitShare ==
    /\ InitWith(Scope(Procs, Users, Names, {"hello"}, ShareIds, MaxChanges - 1))
    /\ env = "prod"

NextShare ==
    \/ \E p \in scope.procs : ApiItemsDelResolve(p)
    \/ \E p \in scope.procs : ApiItemsDelCheck(p)
    \/ \E p \in scope.procs : ApiItemsDelDelete(p)
    \/ \E p \in scope.procs : ApiContentPutParse(p)
    \/ \E p \in scope.procs : ApiContentPutRead(p)
    \/ \E p \in scope.procs : ApiContentPutCheck(p)
    \/ \E p \in scope.procs : ApiContentPutSave(p)
    \/ \E p \in scope.procs : ApiContentPutFinally(p)
    \/ \E p \in scope.procs : Return(p)
    \/ ShareItem

SpecShare == InitShare /\ [][NextShare]_vars

\* Access checks one request at a time: two tenants, one of whom may share
\* an item with the other, on two names; uploads may carry a share_id.
InitAcl ==
    /\ InitWith(Scope({"p1"}, Users, Names, {"hello"}, ShareIds, MaxChanges))
    /\ env = "prod"

SpecAcl == InitAcl /\ [][NextShare]_vars

\* Uploads with and without a file part, through the API and through the web
\* form.
InitUpload == InitWith(Scope({"p1"}, Users, {"note.md"}, {NoFile, "hello"}, ShareIds,
                             MaxChanges))

NextUpload ==
    \/ \E p \in scope.procs : ApiContentPutParse(p)
    \/ \E p \in scope.procs : ApiContentPutRead(p)
    \/ \E p \in scope.procs : ApiContentPutCheck(p)
    \/ \E p \in scope.procs : ApiContentPutSave(p)
    \/ \E p \in scope.procs : ApiContentPutFinally(p)
    \/ \E p \in scope.procs : WebItemsPostParse(p)
    \/ \E p \in scope.procs : WebItemsPostForm(p)
    \/ \E p \in scope.procs : Return(p)
    \/ ShareItem

SpecUpload == InitUpload /\ [][NextUpload]_vars

\* One tenant writing two names while a client pages through the children
\* listing of the root and another through the delta route.
InitList ==
    /\ InitWith(Scope({"p1"}, {"u1"}, Names, {"hello"}, {}, MaxChanges))
    /\ env = "prod"

NextList ==
    \/ \E p \in scope.procs : ApiItemsDelResolve(p)
    \/ \E p \in scope.procs : ApiItemsDelCheck(p)
    \/ \E p \in scope.procs : ApiItemsDelDelete(p)
    \/ \E p \in scope.procs : ApiContentPutParse(p)
    \/ \E p \in scope.procs : ApiContentPutRead(p)
    \/ \E p \in scope.procs : ApiContentPutSave(p)
    \/ \E p \in scope.procs : ApiContentPutFinally(p)
    \/ \E p \in scope.procs : Return(p)
    \/ SyncStart
    \/ SyncPage
    \/ ListStart
    \/ ListPage

SpecList == InitList /\ [][NextList]_vars

\* One tenant's requests, two at a time, some rolled back, while a client
\* pages through the delta route.
InitLog ==
    /\ InitWith(Scope(Procs, {"u1"}, {"note.md"}, {"hello"}, {}, MaxChanges))
    /\ env = "prod"

SpecLog == InitLog /\ [][NextSync]_vars

\* One client that syncs once from the empty cursor and then keeps polling,
\* while two tenants upload and delete.
InitPoll ==
    /\ InitWith(Scope({"p1"}, Users, {"note.md"}, {"hello"}, {}, MaxChanges))
    /\ env = "prod"

NextPoll ==
    \/ \E p \in scope.procs : ApiItemsDelResolve(p)
    \/ \E p \in scope.procs : ApiItemsDelCheck(p)
    \/ \E p \in scope.procs : ApiItemsDelDelete(p)
    \/ \E p \in scope.procs : ApiContentPutParse(p)
    \/ \E p \in scope.procs : ApiContentPutRead(p)
    \/ \E p \in scope.procs : ApiContentPutSave(p)
    \/ \E p \in scope.procs : ApiContentPutFinally(p)
    \/ \E p \in scope.procs : Return(p)
    \/ sync.pc = "idle" /\ SyncStart
    \/ SyncPage
    \/ SyncPoll

\* The client keeps calling: a delta call that is due is made, and a
\* caught-up client polls again.  The tenants' requests have no fairness:
\* they may stop at any time.
SpecPoll ==
    InitPoll /\ [][NextPoll]_vars /\ WF_vars(SyncPage) /\ WF_vars(SyncPoll)

\* Two call chains, each obtaining a model from the factory for every call
\* and awaiting the call before the next.
InitTx ==
    /\ InitWith(Scope(Procs, Users, {"note.md"}, {"hello"}, {}, MaxChanges))
    /\ env = "prod"

NextTx ==
    \/ \E p \in scope.procs : ChainObtain(p)
    \/ \E p \in scope.procs : TxStart(p)
    \/ \E p \in scope.procs : TxEnd(p)
    \/ \E p \in scope.procs : ChainReturn(p)

SpecTx == InitTx /\ [][NextTx]_vars

\* Two tenants uploading and reading content, through the API and through
\* the web user-content route.
InitContent ==
    /\ InitWith(Scope({"p1"}, Users, {"note.md"}, {"hello"}, {}, MaxChanges))
    /\ env = "prod"

NextContent ==
    \/ \E p \in scope.procs : ApiContentGetResolve(p)
    \/ \E p \in scope.procs : ApiContentGetRead(p)
    \/ \E p \in scope.procs : ApiContentPutParse(p)
    \/ \E p \in scope.procs : ApiContentPutRead(p)
    \/ \E p \in scope.procs : ApiContentPutSave(p)
    \/ \E p \in scope.procs : ApiContentPutFinally(p)
    \/ \E p \in scope.procs : WebItemsContentGet(p)
    \/ \E p \in scope.procs : Return(p)

SpecContent == InitContent /\ [][NextContent]_vars

\* Two tenants creating, replacing and deleting one name each while the
\* Change Log compacts the histories of deleted items.
InitCompact ==
    /\ InitWith(Scope({"p1"}, Users, {"note.md"}, {"hello"}, {}, MaxChanges + 1))
    /\ env = "prod"

NextCompact ==
    \/ \E p \in scope.procs : ApiItemsDelResolve(p)
    \/ \E p \in scope.procs : ApiItemsDelCheck(p)
    \/ \E p \in scope.procs : ApiItemsDelDelete(p)
    \/ \E p \in scope.procs : ApiContentPutParse(p)
    \/ \E p \in scope.procs : ApiContentPutRead(p)
    \/ \E p \in scope.procs : ApiContentPutSave(p)
    \/ \E p \in scope.procs : ApiContentPutFinally(p)
    \/ \E p \in scope.procs : Return(p)
    \/ Compact

SpecCompact == InitCompact /\ [][NextCompact]_vars

\* The menu bar alone: its effects run and are cleaned up as the props
\* change, and their timers fire, in any order.
InitMenu ==
    /\ InitWith([Scope({"p1"}, {"u1"}, {"note.md"}, {"hello"}, {}, MaxChanges)
                    EXCEPT !.menu = MenuScope(RouteNames, {}, {}, MaxRuns)])
    /\ env = "prod"

NextMenu ==
    \/ UseMenuEffect
    \/ UseMenuCleanup
    \/ UpdateMenu
    \/ UseMenuStatesEffect
    \/ UseMenuStatesCleanup
    \/ ScheduleUpdate

SpecMenu == InitMenu /\ [][NextMenu]_vars

\* One run of each effect of the menu bar, with what the plugins add to
\* the menu.
InitBuild ==
    /\ InitWith([Scope({"p1"}, {"u1"}, {"note.md"}, {"hello"}, {}, MaxChanges)
                    EXCEPT !.menu = MenuScope(RouteNames, ParentIds, Locations, 1)])
    /\ env = "prod"

SpecBuild == InitBuild /\ [][NextMenu]_vars

\* ------------------------------------------------------------------ claims

NameOf(r) == pathToName(r.path)
Key(r) == <<r.user, r.path>>
ChangesOfItem(chs, id) == SelectSeq(chs, LAMBDA c : c.item_id = id)

\* C1: whatever item a request made on behalf of a user resolves or returns
\* (GET metadata, GET content, DELETE) is an item of that user with the name
\* asked for, also when another tenant holds an item of the same name.
C1_TenantIsolation ==
    \A p \in Procs :
        /\ req[p].item # NoItem =>
                /\ req[p].item.owner_id = req[p].user
                /\ req[p].item.name = NameOf(req[p])
        /\ req[p].resp # NoItem =>
                /\ req[p].resp.owner_id = req[p].user
                /\ req[p].resp.name = NameOf(req[p])

\* Both tenants hold an item of the same name and a request of one of them
\* has returned an item.
C1_Witness ==
    \E p \in Procs :
        /\ req[p].kind \in {"get", "getContent"}
        /\ req[p].pc = "done"
        /\ req[p].resp # NoItem
        /\ \E i \in items :
            /\ i.name = req[p].resp.name
            /\ i.owner_id # req[p].user
            /\ i.id < req[p].resp.id

StrictlyIncreasing(s) == \A k \in 1..(Len(s) - 1) : s[k] < s[k + 1]

\* C2: in a sync pass that starts from the empty cursor and asks each page
\* with the cursor the page before returned, every page holds only changes
\* after the cursor it was asked with and no more than the page limit; the
\* pages so far are, in strictly increasing order and without repeats, the
\* first of the tenant's changes; and once has_more is false they are all of
\* the tenant's changes in the log when the last page was served.
C2_DeltaDrain ==
    /\ \A k \in 1..Len(sync.page) : sync.page[k] > sync.asked
    /\ Len(sync.page) <= PageLimit
    /\ StrictlyIncreasing(sync.got)
    /\ Len(sync.got) <= Len(sync.upto)
    /\ sync.got = SubSeq(sync.upto, 1, Len(sync.got))
    /\ sync.pc = "drained" => sync.got = sync.upto

\* A pass has drained a tenant's two changes in two pages, a change of the
\* other tenant lying between them in the log.
C2_Witness ==
    /\ sync.pc = "drained"
    /\ sync.got = <<1, 3>>
    /\ sync.asked = 1
    /\ sync.page = <<3>>
    /\ Len(changes) = 3
    /\ changes[2].owner_id # sync.user

\* The put handler's save has committed in this step.
PutSaved(p) ==
    /\ req[p].pc = "put_save"
    /\ req'[p].pc # "put_save"
    /\ req'[p].error = NoError

\* ... and it stored the bytes the last upload to that path stored.
RePut(p) ==
    /\ PutSaved(p)
    /\ uploaded[Key(req[p])] = req[p].file

WrittenIds == {id \in 1..itemSeq' : loadById(items, id) # loadById(items', id)}

\* The Changes a step appended.
Appended == SubSeq(changes', Len(changes) + 1, Len(changes'))

LastChangeOf(id) ==
    ChangesOfItem(changes, id)[Len(ChangesOfItem(changes, id))]

\* The log and the items table tell the same story: an item exists exactly
\* when its last Change is not a delete, and that Change carries its name,
\* owner and updated_time.
LogMatchesItems ==
    /\ \A k \in 1..Len(changes) :
        loadById(items, changes[k].item_id) = NoItem
            <=> LastChangeOf(changes[k].item_id).type = "delete"
    /\ \A i \in items :
        /\ ChangesOfItem(changes, i.id) # <<>>
        /\ LastChangeOf(i.id).type # "delete"
        /\ LastChangeOf(i.id).item_name = i.name
        /\ LastChangeOf(i.id).owner_id = i.owner_id
        /\ LastChangeOf(i.id).updated_time = i.updated_time

\* C4: in every state the items table and the Change Log agree; every step
\* appends exactly one Change for each item it creates, replaces or deletes
\* and nothing else, only ever extending the log; a request that threw has
\* appended nothing, and a put that returned has appended exactly one Change.
C4_OneChangePerWrite ==
    /\ []LogMatchesItems
    /\ [](\A p \in Procs :
            /\ req[p].error # NoError => req[p].wrote = 0
            /\ (req[p].kind = "put" /\ req[p].pc = "done"
                    /\ req[p].error = NoError) => req[p].wrote = 1)
    /\ [][/\ Len(changes') >= Len(changes)
          /\ SubSeq(changes', 1, Len(changes)) = changes
          /\ Len(Appended) = Cardinality(WrittenIds)
          /\ {Appended[k].item_id : k \in 1..Len(Appended)} = WrittenIds]_vars

\* A put has failed and been rolled back after a create, a replace and a
\* delete had each left their Change.
C4_Witness ==
    /\ Len(changes) = 3
    /\ {changes[k].type : k \in 1..Len(changes)} = ChangeTypes
    /\ \E p \in Procs :
        /\ req[p].kind = "put" /\ req[p].pc = "done"
        /\ req[p].error = "StorageError" /\ req[p].buffer # EmptyBuffer

\* A delete request for the root path has been handled in this step.
RootDelete(p) ==
    /\ req[p].pc = "idle"
    /\ req'[p].kind = "del"
    /\ req'[p].path \in RootPaths

ItemsOf(tbl, userId) == {i \in tbl : i.owner_id = userId}

\* C5: a DELETE of 'root' or 'root:/:' outside the dev environment throws
\* MethodNotAllowed and leaves the items and the log as they were; in the
\* dev environment it returns without error and has removed every item of
\* the calling tenant.
C5_RootDelete ==
    [][\A p \in Procs : RootDelete(p) =>
        /\ req'[p].pc = "done"
        /\ IF env # "dev"
           THEN /\ req'[p].error = "MethodNotAllowed"
                /\ items' = items
                /\ changes' = changes
           ELSE /\ req'[p].error = NoError
                /\ ItemsOf(items', req'[p].user) = {}
                /\ items' \subseteq items]_vars

\* Outside dev a root delete has been refused while the tenant holds two
\* items.
C5_Witness ==
    \E p \in Procs :
        /\ env = "prod"
        /\ req[p].kind = "del" /\ req[p].path = "root:/:" /\ req[p].pc = "done"
        /\ req[p].error = "MethodNotAllowed"
        /\ Cardinality(ItemsOf(items, req[p].user)) = 2

\* The item a delete request resolved is the root of a share and the user
\* is not its owner.
OthersShareRoot(r) ==
    /\ r.item # NoItem
    /\ IsShareRoot(r.item)
    /\ r.item.owner_id # r.user

\* The delete handler's permission check has been made in this step.
DeleteChecked(p) ==
    /\ req[p].pc = "del_check"
    /\ req'[p].pc # "del_check"

\* C6: when a DELETE resolves the root of a share the acting user does not
\* own, the request throws Forbidden and leaves the items, the shares and
\* the Change Log as they were; a step that removes the root of a share is
\* a step of a request of the root's owner; and a delete request reaches
\* deleteForUser, or has written, only after its Delete check has passed.
C6_ShareRootDelete ==
    /\ [](\A p \in Procs :
            /\ req[p].pc = "del_delete" => req[p].checked
            /\ (req[p].kind = "del" /\ req[p].path \notin RootPaths
                    /\ req[p].wrote > 0) => req[p].checked)
    /\ [][/\ \A p \in Procs : (DeleteChecked(p) /\ OthersShareRoot(req[p])) =>
                /\ req'[p].pc = "done"
                /\ req'[p].error = "Forbidden"
                /\ req'[p].wrote = 0
                /\ items' = items /\ shares' = shares /\ changes' = changes
                /\ req[p].item \in items' => IsShareRoot(req[p].item)'
          /\ \A i \in items :
                (IsShareRoot(i) /\ loadById(items', i.id) = NoItem) =>
                    \E p \in Procs :
                        /\ req'[p].user = i.owner_id
                        /\ req'[p].wrote > 0
                        /\ req[p].pc # "done" /\ req'[p].pc = "done"]_vars

\* A user a share gives access to has uploaded an item of their own into
\* the share, and their DELETE of the share's root, which another user
\* owns, has been refused; the root is still there.
C6_Witness ==
    \E p \in Procs : \E s \in shares : \E i \in items :
        /\ req[p].kind = "del" /\ req[p].pc = "done"
        /\ req[p].error = "Forbidden"
        /\ req[p].item \in items
        /\ s.item_id = req[p].item.id
        /\ s.owner_id # req[p].user
        /\ <<s.id, req[p].user>> \in shareUsers
        /\ i.owner_id = req[p].user /\ i.jop_share_id = s.id

\* A delete request for a path at which the user has no item has been
\* handled in this step.
DeleteOfNothing(p) ==
    /\ req[p].pc = "idle"
    /\ req'[p].kind = "del"
    /\ req'[p].path \notin RootPaths
    /\ RowsByName(items, req'[p].user, NameOf(req'[p])) = {}

\* C7: a DELETE of a path at which the calling tenant has no item returns
\* without error and leaves the items and the Change Log as they were.
C7_DeleteOfNothing ==
    [][\A p \in Procs : DeleteOfNothing(p) =>
        /\ req'[p].pc = "done"
        /\ req'[p].error = NoError
        /\ req'[p].wrote = 0
        /\ items' = items
        /\ changes' = changes]_vars

\* A delete of a path the user has nothing at has returned, the other
\* tenant holding an item of that name and the user one of the other name.
C7_Witness ==
    \E p \in Procs :
        /\ req[p].kind = "del" /\ req[p].pc = "done" /\ req[p].error = NoError
        /\ req[p].path \notin RootPaths
        /\ req[p].item = NoItem
        /\ RowsByName(items, req[p].user, NameOf(req[p])) = {}
        /\ ItemsOf(items, req[p].user) # {}
        /\ \E i \in items : i.name = NameOf(req[p]) /\ i.owner_id # req[p].user
        /\ \A k \in 1..Len(changes) : changes[k].type = "create"

\* C8 as stated: every temporary upload file on disk belongs to a request
\* whose handler has not yet returned or thrown.
C8_NoOrphanUpload ==
    \A f \in tmpFiles :
        /\ req[f.proc].kind = f.kind
        /\ req[f.proc].pc \notin {"idle", "done"}

\* The record the put handler's Create check is made on.
ShareTarget(r) == [NoItem EXCEPT !.jop_share_id = r.share_id]

\* The put handler's Create check has been made in this step and denied.
CreateDenied(p) ==
    /\ req[p].pc = "put_check"
    /\ req'[p].pc # "put_check"
    /\ ~Allowed(req[p].user, "Create", ShareTarget(req[p]))

\* C9: a put request that carries a share_id reaches its save, or has
\* written, only after its Create check has passed; when the check denies,
\* the request throws Forbidden and the items and the Change Log stay as
\* they were; a request that threw Forbidden has written nothing, and the
\* finally block hands the error on to the caller.
C9_CreateCheckBeforeSave ==
    /\ [](\A p \in Procs :
            /\ (req[p].kind = "put" /\ req[p].share_id # NoShare
                    /\ (req[p].pc = "put_save" \/ req[p].wrote > 0))
                => req[p].checked
            /\ req[p].error = "Forbidden" =>
                    /\ req[p].wrote = 0
                    /\ req[p].resp = NoItem
                    /\ ~(req[p].kind = "put" /\ req[p].checked))
    /\ [][\A p \in Procs :
            /\ CreateDenied(p) =>
                /\ req'[p].error = "Forbidden"
                /\ req'[p].pc \in {"put_finally", "done"}
                /\ items' = items /\ changes' = changes
            /\ (req[p].pc = "put_finally" /\ req'[p].pc # "put_finally") =>
                /\ req'[p].pc = "done"
                /\ req'[p].error = req[p].error]_vars

\* A user outside a share has uploaded a file with the share's id: the
\* request has thrown Forbidden, the user has no item and the log holds
\* only the share root's create.
C9_Witness ==
    \E p \in Procs : \E s \in shares :
        /\ req[p].kind = "put" /\ req[p].pc = "done"
        /\ req[p].error = "Forbidden"
        /\ req[p].file # NoFile
        /\ req[p].share_id = s.id
        /\ s.owner_id # req[p].user
        /\ <<s.id, req[p].user>> \notin shareUsers
        /\ ItemsOf(items, req[p].user) = {}
        /\ Len(changes) = 1

\* The content handler has served the item's bytes in this step.
ContentServed(p) ==
    /\ req[p].pc = "content_read"
    /\ req'[p].pc = "done"
    /\ req'[p].error = NoError

\* A GET content request has been made in this step for a path that holds
\* an upload.
ContentAsked(p) ==
    /\ req[p].pc = "idle"
    /\ req'[p].kind = "getContent"
    /\ uploaded[Key(req'[p])] # NoFile

\* The put handler's save has committed on a path that held an upload.
Replaced(p) ==
    /\ PutSaved(p)
    /\ uploaded[Key(req[p])] # NoFile

\* C10: a GET content of a path that holds an upload finds the item, and
\* what it serves are the bytes last uploaded there; a PUT on a path that
\* holds an upload keeps the item's id, advances its updated_time and
\* appends exactly one Change, an update of that item.
C10_ReadYourWrites ==
    [][\A p \in Procs :
        /\ ContentAsked(p) => req'[p].pc = "content_read"
        /\ ContentServed(p) =>
            /\ req'[p].body = uploaded[Key(req[p])]
            /\ req'[p].body \in Bytes
        /\ Replaced(p) =>
            \E i \in RowsByName(items, req[p].user, NameOf(req[p])),
               j \in RowsByName(items', req[p].user, NameOf(req[p])) :
                /\ j.id = i.id
                /\ j.updated_time > i.updated_time
                /\ j.content = req[p].file
                /\ Len(Appended) = 1
                /\ Appended[1].type = "update"
                /\ Appended[1].item_id = i.id]_vars

\* "hello" was uploaded, then "hello v2" to the same path, and a GET
\* content has served "hello v2".
C10_Witness ==
    \E p \in Procs : \E i \in items :
        /\ req[p].kind = "getContent" /\ req[p].pc = "done"
        /\ req[p].body = "hello v2"
        /\ req[p].resp.id = i.id
        /\ i.updated_time > i.created_time
        /\ Len(changes) = 2
        /\ changes[1].type = "create" /\ changes[2].type = "update"
        /\ changes[2].item_id = i.id

\* A user's delta stream: all of the user's Changes, oldest first.
DeltaStream(userId) == ChangesAfter(changes, userId, 0)

\* The user's item at that name has been deleted and the name not created
\* again: the last Change of the user that carries the name is a delete.
DeletedAt(userId, name) ==
    \E k \in 1..Len(changes) :
        /\ changes[k].owner_id = userId
        /\ changes[k].item_name = name
        /\ changes[k].type = "delete"
        /\ \A m \in (k + 1)..Len(changes) :
            ~(changes[m].owner_id = userId /\ changes[m].item_name = name)

\* A GET of the metadata or of the content of a path has resolved the path
\* in this step.
GetResolved(p) ==
    /\ req[p].pc = "idle"
    /\ req'[p].kind \in {"get", "getContent"}

\* A delete request has removed the item it resolved in this step.
Deleted(p) ==
    /\ req[p].pc = "del_delete"
    /\ req'[p].pc = "done"
    /\ req'[p].wrote > 0

\* C11: a GET (metadata or content) of a path whose item the tenant has
\* deleted and not created again throws NotFound and returns no item; the
\* step in which a DELETE removes an item appends a delete Change of that
\* item id to the owner's delta stream; and in every state a delete Change
\* of an item id is the last Change of that id in the stream, the item
\* being gone.
C11_DeleteThenNotFound ==
    /\ [](\A u \in Users :
            \A k \in 1..Len(DeltaStream(u)) :
                DeltaStream(u)[k].type = "delete" =>
                    /\ \A m \in (k + 1)..Len(DeltaStream(u)) :
                        DeltaStream(u)[m].item_id # DeltaStream(u)[k].item_id
                    /\ ChangesOfItem(changes, DeltaStream(u)[k].item_id)
                        = ChangesOfItem(DeltaStream(u), DeltaStream(u)[k].item_id)
                    /\ loadById(items, DeltaStream(u)[k].item_id) = NoItem)
    /\ [][\A p \in Procs :
            /\ (GetResolved(p) /\ DeletedAt(req'[p].user, NameOf(req'[p]))) =>
                /\ req'[p].pc = "done"
                /\ req'[p].error = "NotFound"
                /\ req'[p].resp = NoItem
                /\ req'[p].body = ""
            /\ Deleted(p) =>
                /\ loadById(items', req[p].item.id) = NoItem
                /\ DeletedAt(req[p].user, NameOf(req[p]))'
                /\ LET stream == DeltaStream(req[p].item.owner_id)'
                   IN  /\ stream # <<>>
                       /\ stream[Len(stream)].type = "delete"
                       /\ stream[Len(stream)].item_id = req[p].item.id]_vars

\* An item was created, replaced and deleted, and a later GET of its path by
\* its owner has thrown NotFound.
C11_Witness ==
    \E p \in Procs :
        /\ req[p].kind = "get" /\ req[p].pc = "done"
        /\ req[p].error = "NotFound"
        /\ req[p].path \notin RootPaths
        /\ Len(changes) = 3
        /\ changes[1].type = "create" /\ changes[2].type = "update"
        /\ changes[3].type = "delete"
        /\ \A k \in 1..3 : /\ changes[k].item_id = changes[1].item_id
                           /\ changes[k].owner_id = req[p].user
                           /\ changes[k].item_name = NameOf(req[p])

NoRepeats(s) == \A k, m \in 1..Len(s) : s[k] = s[m] => k = m

Range(s) == {s[k] : k \in 1..Len(s)}

\* C13 as stated: the pages of a pass over a listing, and of a pass over the
\* delta stream, never hold the same row twice, and once the pass is drained
\* they hold every row that existed when the first page was asked for and
\* has not been deleted since.
C13_PagingUnderWrites ==
    /\ NoRepeats(listing.got)
    /\ listing.pc = "drained" =>
            \A id \in listing.first :
                loadById(items, id) # NoItem => id \in Range(listing.got)
    /\ NoRepeats(sync.got)
    /\ sync.pc = "drained" => sync.got = sync.upto

\* The ids of a user's Changes up to a cursor, in log order.
IdsUpTo(userId, cursor) ==
    Ids(SelectSeq(changes, LAMBDA c : c.owner_id = userId /\ c.id <= cursor))

C15_TransactionIsolation ==
    /\ [](\A k \in 1..Len(txs.instances) :
            \A m \in 1..Len(txs.instances[k]) :
                /\ txs.chains[txs.instances[k][m]].pc = "calling"
                /\ txs.chains[txs.instances[k][m]].inst = k)
    /\ [](\A p, q \in Procs :
            (p # q /\ txs.chains[p].pc = "calling" /\ txs.chains[q].pc = "calling")
                => txs.chains[p].inst # txs.chains[q].inst)
    /\ [][\A p \in Procs :
            /\ (txs.chains[p].pc = "idle" /\ txs'.chains[p].pc = "calling") =>
                /\ txs'.chains[p].inst = Len(txs.instances) + 1
                /\ Len(txs'.instances) = Len(txs.instances) + 1
                /\ txs'.instances[txs'.chains[p].inst] = <<>>
            /\ txs'.chains[p].depth < txs.chains[p].depth =>
                /\ txs'.chains[p].popped = p
                /\ \A q \in Procs \ {p} :
                    \A k \in 1..Len(txs.instances) :
                        Len(SelectSeq(txs'.instances[k], LAMBDA c : c = q))
                            = Len(SelectSeq(txs.instances[k], LAMBDA c : c = q))]_vars

\* Both chains have transactions open at once, one of them nested, each on
\* its own instance, and one chain has already ended a transaction.
C15_Witness ==
    \E p, q \in Procs :
        /\ p # q
        /\ txs.chains[p].pc = "calling" /\ txs.chains[p].depth = 2
        /\ txs.chains[q].pc = "calling" /\ txs.chains[q].depth = 1
        /\ txs.chains[q].popped = q
        /\ txs.instances[txs.chains[p].inst] = <<p, p>>
        /\ txs.instances[txs.chains[q].inst] = <<q>>
        /\ Len(txs.instances) >= 3

\* C16 as stated: a content request that has returned the content of an item
\* its caller does not own has had the Access Control Evaluator allow the
\* caller first.
C16_ContentAcl ==
    \A p \in Procs :
        (/\ req[p].kind \in {"getContent", "webContent"}
         /\ req[p].pc = "done"
         /\ req[p].error = NoError
         /\ req[p].resp.owner_id # req[p].user)
            => req[p].checked

\* What a client receives when it drains a log from a cursor: the pages of
\* repeated delta calls, each asked with the cursor the one before returned,
\* until has_more is false.
RECURSIVE Drain(_, _, _)
Drain(log, userId, cursor) ==
    LET r == delta(log, userId,
                   requestDeltaPagination([cursor |-> cursor, limit |-> PageLimit]))
    IN  r.items \o (IF r.has_more THEN Drain(log, userId, r.cursor) ELSE <<>>)

\* The net effect of a stream of Changes per item: the item is absent, or
\* is at its latest state.
NetEffect(stream) ==
    [id \in {stream[k].item_id : k \in 1..Len(stream)} |->
        LET cs == ChangesOfItem(stream, id)
            last == cs[Len(cs)]
        IN  IF last.type = "delete" THEN <<"absent">>
            ELSE <<"present", last.item_name, last.updated_time>>]

\* C17: for every tenant and every cursor the log has issued, draining the
\* compacted log from that cursor leaves the same net effect per item as
\* draining the log as it would be without any compaction; compaction only
\* removes records, and the records it keeps keep their sequence numbers and
\* their order.
C17_CompactionKeepsNetEffect ==
    /\ \A u \in Users : \A c \in 0..changeSeq :
            NetEffect(Drain(changes, u, c)) = NetEffect(Drain(uncompacted, u, c))
    /\ StrictlyIncreasing(Ids(changes))
    /\ Range(changes) \subseteq Range(uncompacted)

\* The history of a deleted item has been compacted to its delete record,
\* and a Change of the other tenant has been committed since.
C17_Witness ==
    /\ Len(uncompacted) = 4
    /\ Len(changes) = 2
    /\ changes[1].type = "delete" /\ changes[1].id = 3
    /\ changes[2].id = 4 /\ changes[2].owner_id # changes[1].owner_id

NoFilePut(r) == r.kind = "put" /\ r.file = NoFile /\ r.pc = "done"

\* C19: an upload whose multipart body has no file part is rejected, and has
\* written no item and appended no Change.  The claim names ValidationError;
\* a rejection by the Create check or by a failed save, which come before
\* any answer, counts as a rejection here as well.
C19_NoFileRejected ==
    \A p \in Procs :
        NoFilePut(req[p]) => req[p].error # NoError /\ req[p].wrote = 0

\* The relationship of an actor to a target: its owner, a user the target's
\* share gives access to, or neither.
Relation(actor, target) ==
    IF target.owner_id = actor THEN "owner"
    ELSE IF HasShareRelationship(actor, TargetShareId(target)) THEN "share"
    ELSE "none"

\* The decision matrix, as the set of its allowing cells <<relationship,
\* action, target is a share root>>: every cell of the owner, and every cell
\* of a share relationship but the delete of the share root.
AllowedCells ==
    {<<"owner", a, root>> : a \in AclActions, root \in BOOLEAN}
        \cup ({<<"share", a, root>> : a \in AclActions, root \in BOOLEAN}
                \ {<<"share", "Delete", TRUE>>})

\* The cell of the matrix a check falls in.
CellOf(actor, action, target) ==
    <<Relation(actor, target), action, IsShareRoot(target)>>

\* The matrix allows the check.
InMatrix(actor, action, target) == CellOf(actor, action, target) \in AllowedCells

\* The targets checks are made on: the items in store and the records the
\* put handler builds from a share_id.
Targets == items \cup {[NoItem EXCEPT !.jop_share_id = s] : s \in ShareIds}

\* The ACL-relevant fields of a target.
AclFields(target) ==
    [NoItem EXCEPT !.id = target.id, !.owner_id = target.owner_id,
                   !.jop_share_id = target.jop_share_id]

Pending(k) ==
    /\ sync.pc # "idle"
    /\ \E c \in Range(changes) : c.id = k /\ c.owner_id = sync.user

\* C21: a client that keeps calling delta with the cursor it was last given
\* is eventually told has_more = false; and every Change of its tenant in
\* the log, also one appended after the client had caught up, is eventually
\* returned to it by a later call.
C21_SyncTerminates ==
    /\ (sync.pc = "paging") ~> (sync.pc = "drained")
    /\ \A k \in 1..MaxChanges :
            Pending(k) ~> (\E n \in 1..Len(sync.got) : sync.got[n] = k)

\* A client had caught up after one change, polled again, and the call
\* from the same cursor returned a change appended in the meantime.
C21_Witness ==
    /\ sync.polled
    /\ sync.pc = "drained"
    /\ sync.asked = 1
    /\ sync.page = <<2>>
    /\ sync.got = <<1, 2>>

\* The runs of both effects.
EffectRuns == Range(menuBar.build) \cup Range(menuBar.states)

\* Run k of the effect has made its update in this step.
Updated(effect, k) ==
    /\ k \in 1..Len(menuBar[effect])
    /\ menuBar[effect][k].timer = "pending"
    /\ ~menuBar[effect][k].cleaned
    /\ menuBar'[effect][k].timer = "fired"
    /\ menuBar'[effect][k].updates = menuBar[effect][k].updates + 1

\* C22: a run of the menu-building effect or of the menu-state effect makes
\* its update at most once; a run whose cleanup has run makes none from
\* then on; and setMenu is called, or the checked and enabled states are
\* set, only by the timer callback of a run that has not been cleaned up.
C22_DebouncedUpdates ==
    /\ [](\A r \in EffectRuns : r.updates <= 1 /\ ~r.late)
    /\ [][/\ \A k \in 1..Len(menuBar.build) :
                menuBar.build[k].cleaned =>
                    menuBar'.build[k].updates = menuBar.build[k].updates
          /\ \A k \in 1..Len(menuBar.states) :
                menuBar.states[k].cleaned =>
                    menuBar'.states[k].updates = menuBar.states[k].updates
          /\ menuBar'.menu # menuBar.menu =>
                \E k \in 1..Len(menuBar.build) :
                    Updated("build", k) /\ menuBar'.menu.by = k
          /\ menuBar'.applied # menuBar.applied =>
                \E k \in 1..Len(menuBar.states) :
                    Updated("states", k) /\ menuBar'.applied = k]_vars

\* The first run of each effect was cleaned up before its timer fired and
\* has updated nothing; the second run of each has fired and made its
\* update, and has been cleaned up since.
C22_Witness ==
    /\ Len(menuBar.build) >= 2 /\ Len(menuBar.states) >= 2
    /\ \A runs \in {menuBar.build, menuBar.states} :
        /\ runs[1].cleaned /\ runs[1].timer = "cleared" /\ runs[1].updates = 0
        /\ runs[2].cleaned /\ runs[2].timer = "fired" /\ runs[2].updates = 1
    /\ menuBar.menu.by = 2
    /\ menuBar.applied = 2

\* The entries follow one another in the submenu.
Adjacent(submenu, a, b) ==
    \E n \in 1..(Len(submenu) - 1) : submenu[n] = a /\ submenu[n + 1] = b

\* C23: every updateMenu that runs reaches setMenu; on the Main route a
\* PluginManager menu item whose parent names no root menu is in the Tools
\* menu after a separator, and a plugin menu item or menu whose location
\* names neither a root menu nor a context menu has been logged and is in
\* no menu.
C23_UnknownLocation ==
    \A k \in 1..Len(menuBar.build) :
        LET run == menuBar.build[k]
        IN  run.timer = "fired" =>
                /\ run.outcome = "setMenu"
                /\ (menuBar.menu.by = k /\ run.routeName = "Main") =>
                    /\ \A item \in Range(run.managerItems) :
                            item \notin RootMenuIds =>
                                Adjacent(menuBar.menu.template["tools"], separator,
                                         MenuEntry("managerItem", item))
                    /\ \A location \in Range(run.pluginMenuItems)
                                            \cup Range(run.pluginMenus) :
                            (location \notin RootMenuIds
                                    /\ ~isContextMenuItemLocation(location)) =>
                                /\ location \in Range(run.logged)
                                /\ \A id \in RootMenuIds :
                                    \A e \in Range(menuBar.menu.template[id]) :
                                        e.type = "managerItem"
                                            \/ e.location # location

====
